---- MODULE Spec2Model ----
(***************************************************************************)
(* Model of the yolo-serving-template repository:                          *)
(*   - client/http.py : YoloHTTPClient.predict / predict_async, the        *)
(*     retry loop with exponential backoff (specification SpecClient);     *)
(*   - app/main.py    : the POST /predict upload handler, its streamed     *)
(*     size-bounded write, image validation, inference call and the        *)
(*     closing of the upload stream (specification SpecServer).            *)
(* Durations are integers in units of the backoff unit (multiplying by a   *)
(* power of two is exact in binary floating point, so nothing is lost).    *)
(***************************************************************************)
EXTENDS Integers, Sequences, FiniteSets, TLC

\* ------------------------------------------------------------------ bounds
\* largest value of the `retries` constructor argument that is explored
MaxRetries == 3

\* the value None of the Python code
None == "None"

(***************************************************************************)
(*                       client/http.py : YoloHTTPClient                   *)
(***************************************************************************)

VARIABLES
    variant,         \* "sync" (predict) or "async" (predict_async)
    fileExists,      \* p.exists() of the image_path argument
    retries,         \* self.retries
    backoff_factor,  \* self.backoff_factor
    retry_statuses,  \* self.retry_statuses
    cpc,             \* position of the call in predict / predict_async
    attempt,         \* loop variable `attempt`
    last_exc,        \* local `last_exc`
    exc,             \* the exception bound to `e` in the except clause
    outcomes,        \* outcome of each client.post made so far, in order
    waits,           \* sleeps requested so far: [after |-> attempt, dur |-> seconds]
    result,          \* value returned by the call (None before / if none)
    raised           \* exception that left the call (NoExc before / if none)

\* the rest of the client instance, and its use over several calls
VARIABLES
    ctor,            \* arguments the instance was constructed with
    base_url,        \* self.base_url
    headers,         \* self._headers: header name |-> value
    history          \* how the earlier calls on this instance ended, in order

instVars == <<ctor, base_url, headers, history>>

clientVars == <<variant, fileExists, retries, backoff_factor, retry_statuses,
                cpc, attempt, last_exc, exc, outcomes, waits, result, raised,
                instVars>>

\* state of the server (app/main.py)
VARIABLES
    MODEL,          \* global MODEL: None, "StubModel" or "YolovXAdapter"
    pillow,         \* whether `from PIL import Image` succeeds
    fs,             \* files of UPLOAD_DIR: path |-> content
    tampered,       \* paths removed from UPLOAD_DIR by someone else
    nextUuid,       \* source of uuid4 tokens (never repeats)
    content_type,   \* per request: file.content_type
    filename,       \* per request: file.filename
    payload,        \* per request: the bytes of the uploaded stream
    spc,            \* per request: position of the handler
    path,           \* per request: local `path` (NoPath before it is set)
    uploaded,       \* per request: local `uploaded`
    readPos,        \* per request: bytes consumed from the stream
    written,        \* per request: bytes written through `f`
    fstate,         \* per request: file object f: "none", "open", "closed"
    streamClosed,   \* per request: file.close() has completed
    pending,        \* per request: status of the exception in flight, 0 if none
    status,         \* per request: response status, 0 while running
    respPath,       \* per request: "path" of the response body, NoPath if absent
    ioFault,        \* per request: an OSError interrupted the streaming
    inferRaised,    \* per request: MODEL.infer raised
    inferErr,       \* per request: message of the exception MODEL.infer raised
    detail          \* per request: "detail" of an error response

serverVars == <<MODEL, pillow, fs, tampered, nextUuid, content_type, filename,
                payload, spc, path, uploaded, readPos, written, fstate,
                streamClosed, pending, status, respPath, ioFault, inferRaised,
                inferErr, detail>>

\* a second call, of predict_async, on the same client and the same responses
VARIABLES
    acall           \* record of the async call: pc, attempt, last_exc, exc,
                    \* outcomes, waits, result, raised

\* models, the factory, the in-process bridge, /health (app/loader.py,
\* app/model.py, app/core.py, app/utils/postprocess.py, app/main.py)
VARIABLES
    phase,          \* life of the server process, or "format" / "idle"
    env,            \* what the process finds around it (inputs)
    mdl,            \* the model object MODEL refers to (NoModel if none)
    out             \* what the last operation gave back

adapterVars == <<phase, env, mdl, out>>

vars == <<clientVars, serverVars, acall, adapterVars>>

\* request slots of the server
Reqs == {1, 2}

\* the local `path` before line 81 binds it, the "path" of a body without one
NoPath == <<-1, <<>>>>

\* a file that was in UPLOAD_DIR before any request
OldPath == <<0, <<"old">>>>

\* the "detail" of a response that carries none
NoDetail == [msg |-> "", arg |-> ""]

\* main.py:100, 118  the detail of the HTTPException in flight; an exception
\* that is no HTTPException is answered "Internal Server Error"
PendingDetail(st) ==
    IF st = 413 THEN [msg |-> "file too large", arg |-> ""]
    ELSE IF st = 400 THEN [msg |-> "invalid image file", arg |-> ""]
    ELSE [msg |-> "Internal Server Error", arg |-> ""]

\* messages of the exceptions MODEL.infer raises
InferErrors == {"detector failed", "out of memory"}

\* a call that has not started (pc "start") or is not made at all (pc "idle")
NewCall(pc) ==
    [pc |-> pc, attempt |-> 0, last_exc |-> [kind |-> "None", status |-> 0],
     exc |-> [kind |-> "None", status |-> 0], outcomes |-> <<>>, waits |-> <<>>,
     result |-> None, raised |-> [kind |-> "None", status |-> 0]]

\* no model object
NoModel == [cls |-> None, detector |-> FALSE, mode |-> None, names |-> <<>>,
            version |-> None]

\* HTTP statuses a response may carry
Statuses == {200, 404, 429, 500, 501, 503}

\* parsed JSON bodies of 2xx responses
Bodies == {"body1", "body2"}

\* values explored for the backoff_factor constructor argument
BackoffFactors == {0, 1, 3}

\* values explored for the retry_statuses constructor argument
RetryStatusArgs == {[given |-> FALSE, set |-> {}]}
                   \cup {[given |-> TRUE, set |-> S] : S \in {{}, {503}, {404, 500}}}

\* values explored for the retries constructor argument (negative and 0 included)
RetriesArgs == (-1)..MaxRetries

\* is the response status a success (2xx)
IsSuccess(s) == s >= 200 /\ s < 300

\* exceptions are records; status is 0 when the kind carries none
NoExc == [kind |-> "None", status |-> 0]
RequestError == [kind |-> "RequestError", status |-> 0]
HTTPStatusError(s) == [kind |-> "HTTPStatusError", status |-> s]
FileNotFoundError == [kind |-> "FileNotFoundError", status |-> 0]
\* `raise None` at the final raise is a TypeError
TypeError == [kind |-> "TypeError", status |-> 0]

\* outcome of one client.post: a network error or a response
NetErr == [net |-> TRUE, status |-> 0, body |-> None]
Response(s, b) == [net |-> FALSE, status |-> s, body |-> b]
Outcomes == {NetErr} \cup {Response(s, b) : s \in {t \in Statuses : t < 300}, b \in Bodies}
                     \cup {Response(s, None) : s \in {t \in Statuses : t >= 300}}

\* values explored for the base_url and api_key constructor arguments
BaseUrls == {"http://h", "http://h/"}
ApiKeys == {None, "", "k"}

\* http.py:34  base_url.rstrip("/")
RStripSlash(u) == IF u = "http://h/" THEN "http://h" ELSE u

\* http.py:45-47  self._headers; the Authorization value is "Bearer " + api_key
InitHeaders(api_key) ==
    IF api_key # None /\ api_key # ""
       THEN ("Accept" :> "application/json") @@ ("Authorization" :> api_key)
       ELSE ("Accept" :> "application/json")

\* the instance of a client that is not exercised
IdleCtor == [base_url |-> "http://h", api_key |-> None, retries |-> 1]

\* a constructor that takes the retries argument as it comes
InitRetries_NoClamp(arg) == arg

\* http.py:37  self.retries = max(1, int(retries))
InitRetries(arg) == IF arg > 1 THEN arg ELSE 1

\* http.py:40-43  default retry statuses when none are given
InitRetryStatuses(arg) == IF ~arg.given THEN {429, 500, 502, 503, 504} ELSE arg.set

RECURSIVE Pow2(_)
Pow2(n) == IF n <= 0 THEN 1 ELSE 2 * Pow2(n - 1)

\* http.py:49-51  _get_backoff
GetBackoff(a) == backoff_factor * Pow2(a - 1)

\* httpx Response.raise_for_status: raises HTTPStatusError on 4xx / 5xx
RaisesForStatus(s) == s >= 400

\* a loop that stops one attempt short: range(1, self.retries)
InRange_Short(a) == a >= 1 /\ a < retries

\* http.py:63 / 94  for attempt in range(1, self.retries + 1): is `a` in range
InRange(a) == a >= 1 /\ a < retries + 1

\* a break that comes one attempt early
IsLastAttempt_Early(a) == a = retries - 1

\* http.py:76 / 108  if attempt == self.retries: break
IsLastAttempt(a) == a = retries

\* a handler that keeps the first failure instead of the latest
RecordFailure_KeepFirst(prev, e) == IF prev = NoExc THEN e ELSE prev

\* http.py:75 / 107  last_exc = e
RecordFailure(prev, e) == e

InitClient ==
    /\ variant \in {"sync", "async"}
    /\ fileExists \in BOOLEAN
    /\ ctor \in [base_url : {"http://h/"}, api_key : {None}, retries : RetriesArgs]
    /\ retries = InitRetries(ctor.retries)
    /\ base_url = RStripSlash(ctor.base_url)
    /\ headers = InitHeaders(ctor.api_key)
    /\ history = <<>>
    /\ backoff_factor \in BackoffFactors
    /\ \E rs \in RetryStatusArgs : retry_statuses = InitRetryStatuses(rs)
    /\ cpc = "start"
    /\ attempt = 0
    /\ last_exc = NoExc
    /\ exc = NoExc
    /\ outcomes = <<>>
    /\ waits = <<>>
    /\ result = None
    /\ raised = NoExc
    \* the server is not exercised
    /\ MODEL = None
    /\ pillow = FALSE
    /\ fs = [q \in {OldPath} |-> <<1>>]
    /\ tampered = {}
    /\ nextUuid = 1
    /\ content_type = [r \in Reqs |-> None]
    /\ filename = [r \in Reqs |-> <<>>]
    /\ payload = [r \in Reqs |-> <<>>]
    /\ spc = [r \in Reqs |-> "idle"]
    /\ path = [r \in Reqs |-> NoPath]
    /\ uploaded = [r \in Reqs |-> 0]
    /\ readPos = [r \in Reqs |-> 0]
    /\ written = [r \in Reqs |-> <<>>]
    /\ fstate = [r \in Reqs |-> "none"]
    /\ streamClosed = [r \in Reqs |-> FALSE]
    /\ pending = [r \in Reqs |-> 0]
    /\ status = [r \in Reqs |-> 0]
    /\ respPath = [r \in Reqs |-> NoPath]
    /\ ioFault = [r \in Reqs |-> FALSE]
    /\ inferRaised = [r \in Reqs |-> FALSE]
    /\ inferErr = [r \in Reqs |-> None]
    /\ detail = [r \in Reqs |-> NoDetail]
    \* no async twin call, no model life
    /\ acall = NewCall("idle")
    /\ phase = "idle"
    /\ env = [kind |-> "none"]
    /\ mdl = NoModel
    /\ out = [op |-> "none"]

\* http.py:54-56 / 85-87  the image path does not exist
RaiseFileNotFound ==
    /\ cpc = "start"
    /\ ~fileExists
    /\ raised' = FileNotFoundError
    /\ cpc' = "raised"
    /\ UNCHANGED <<variant, fileExists, retries, backoff_factor, retry_statuses,
                   attempt, last_exc, exc, outcomes, waits, result>>
    /\ UNCHANGED <<serverVars, acall, adapterVars, instVars>>

\* http.py:57-63 / 88-94  enter the attempt loop (last_exc = None)
EnterLoop ==
    /\ cpc = "start"
    /\ fileExists
    /\ last_exc' = NoExc
    /\ IF InRange(1)
          THEN attempt' = 1 /\ cpc' = "attempt"
          ELSE attempt' = attempt /\ cpc' = "final"
    /\ UNCHANGED <<variant, fileExists, retries, backoff_factor, retry_statuses,
                   exc, outcomes, waits, result, raised>>
    /\ UNCHANGED <<serverVars, acall, adapterVars, instVars>>

\* http.py:65-73 / 97-105  one upload: the post, the status checks, the return
Attempt(o) ==
    /\ cpc = "attempt"
    /\ outcomes' = Append(outcomes, o)
    /\ IF o.net
          THEN \* client.post raises httpx.RequestError
               /\ exc' = RequestError
               /\ cpc' = "except"
               /\ UNCHANGED <<last_exc, result>>
          ELSE IF o.status \in retry_statuses
          THEN \* lines 69-71: last_exc = HTTPStatusError(...); raise last_exc
               /\ last_exc' = HTTPStatusError(o.status)
               /\ exc' = HTTPStatusError(o.status)
               /\ cpc' = "except"
               /\ UNCHANGED result
          ELSE IF RaisesForStatus(o.status)
          THEN \* line 72: r.raise_for_status()
               /\ exc' = HTTPStatusError(o.status)
               /\ cpc' = "except"
               /\ UNCHANGED <<last_exc, result>>
          ELSE \* line 73: return r.json()
               /\ result' = o.body
               /\ cpc' = "returned"
               /\ UNCHANGED <<last_exc, exc>>
    /\ UNCHANGED <<variant, fileExists, retries, backoff_factor, retry_statuses,
                   attempt, waits, raised>>
    /\ UNCHANGED <<serverVars, acall, adapterVars, instVars>>

\* an except clause that takes the attempt it handled off self.retries
Except_ConsumesBudget ==
    /\ cpc = "except"
    /\ last_exc' = RecordFailure(last_exc, exc)
    /\ IF IsLastAttempt(attempt)
          THEN \* break
               /\ cpc' = "final"
               /\ UNCHANGED <<attempt, waits>>
          ELSE \* backoff = self._get_backoff(attempt); sleep(backoff)
               /\ waits' = Append(waits, [after |-> attempt, dur |-> GetBackoff(attempt)])
               /\ IF InRange(attempt + 1)
                     THEN attempt' = attempt + 1 /\ cpc' = "attempt"
                     ELSE attempt' = attempt /\ cpc' = "final"
    /\ retries' = retries - 1
    /\ UNCHANGED <<variant, fileExists, backoff_factor, retry_statuses,
                   exc, outcomes, result, raised>>
    /\ UNCHANGED <<serverVars, acall, adapterVars, instVars>>

\* http.py:74-79 / 106-111  the except clause: record, break or back off
Except ==
    /\ cpc = "except"
    /\ last_exc' = RecordFailure(last_exc, exc)
    /\ IF IsLastAttempt(attempt)
          THEN \* break
               /\ cpc' = "final"
               /\ UNCHANGED <<attempt, waits>>
          ELSE \* backoff = self._get_backoff(attempt); sleep(backoff)
               /\ waits' = Append(waits, [after |-> attempt, dur |-> GetBackoff(attempt)])
               /\ IF InRange(attempt + 1)
                     THEN attempt' = attempt + 1 /\ cpc' = "attempt"
                     ELSE attempt' = attempt /\ cpc' = "final"
    /\ UNCHANGED <<variant, fileExists, retries, backoff_factor, retry_statuses,
                   exc, outcomes, result, raised>>
    /\ UNCHANGED <<serverVars, acall, adapterVars, instVars>>

\* http.py:82 / 113  raise last_exc
RaiseFinal ==
    /\ cpc = "final"
    /\ raised' = IF last_exc = NoExc THEN TypeError ELSE last_exc
    /\ cpc' = "raised"
    /\ UNCHANGED <<variant, fileExists, retries, backoff_factor, retry_statuses,
                   attempt, last_exc, exc, outcomes, waits, result>>
    /\ UNCHANGED <<serverVars, acall, adapterVars, instVars>>

(***************************************************************************)
(*                     app/main.py : POST /predict handler                 *)
(***************************************************************************)

\* ------------------------------------------------------------------ bounds
\* MAX_UPLOAD_SIZE (main.py:20 is 5 MiB), scaled down to a few bytes
MAX_UPLOAD_SIZE == 4
\* chunk_size (main.py:87 is 1 MiB), scaled down to a few bytes
CHUNK_SIZE == 2
\* longest payload a request sends
MaxPayload == 7


\* main.py:21
ALLOWED_CONTENT_TYPES == {"image/jpeg", "image/png", "image/webp"}

\* content types a request may declare (None: header absent)
ContentTypes == {None, "image/jpeg", "IMAGE/PNG", "text/plain", "image/jpeg; q=1"}

\* str.lower() on the content types above
Lower(s) == IF s = "IMAGE/PNG" THEN "image/png" ELSE s

\* a handler that takes a missing content type for a JPEG
NormContentType_DefaultJpeg(ct) == Lower(IF ct = None THEN "image/jpeg" ELSE ct)

\* main.py:73  (file.content_type or "").lower()
NormContentType(ct) == Lower(IF ct = None THEN "" ELSE ct)

\* file names are sequences of characters; "/" is the path separator
Filenames == {<<>>, <<"a">>, <<"d", "/", "a">>}

\* the name used when file.filename is empty (main.py:79)
DefaultName == <<"upload">>

\* the path components of s: split at "/", empty and "." components dropped
RECURSIVE Components(_, _, _)
Components(s, cur, acc) ==
    LET keep(c) == c # <<>> /\ c # <<".">>
    IN IF s = <<>>
          THEN IF keep(cur) THEN Append(acc, cur) ELSE acc
          ELSE IF Head(s) = "/"
                  THEN Components(Tail(s), <<>>, IF keep(cur) THEN Append(acc, cur) ELSE acc)
                  ELSE Components(Tail(s), Append(cur, Head(s)), acc)

\* a sanitizer that keeps the name as the client sent it
SecureFilename_Raw(s) == s

\* main.py:66-68  _secure_filename: Path(filename).name
SecureFilename(s) ==
    LET parts == Components(s, <<>>, <<>>)
    IN IF parts = <<>> THEN <<>> ELSE parts[Len(parts)]

\* an upload path without the random token
UploadPath_NoToken(uuid, fname) ==
    <<1, SecureFilename(IF fname = <<>> THEN DefaultName ELSE fname)>>

\* main.py:79-81  path = out_dir / f"{uuid}_{safe_name}"
UploadPath(uuid, fname) ==
    <<uuid, SecureFilename(IF fname = <<>> THEN DefaultName ELSE fname)>>

\* bytes
Bytes == {0, 1}

RECURSIVE SeqsUpTo(_)
SeqsUpTo(n) ==
    IF n = 0 THEN {<<>>}
    ELSE LET prev == SeqsUpTo(n - 1)
         IN prev \cup {Append(s, b) : s \in {t \in prev : Len(t) = n - 1}, b \in Bytes}

Payloads == SeqsUpTo(MaxPayload)

Min(a, b) == IF a < b THEN a ELSE b

\* main.py:89  chunk = await file.read(chunk_size): the next bytes of the stream
ReadChunkOf(data, pos) == SubSeq(data, pos + 1, Min(pos + CHUNK_SIZE, Len(data)))

\* main.py:111-112  Image.open(path) / img.verify() accept the content
\* (a decoder accepts a file by its leading signature byte)
IsImage(content) == Len(content) > 0 /\ content[1] = 1

\* path.open("wb"): create or truncate
FsCreate(f, p) == [q \in (DOMAIN f) \cup {p} |-> IF q = p THEN <<>> ELSE f[q]]

\* a write that replaces the file's content instead of extending it
FsWrite_Overwrite(f, p, chunk) == IF p \in DOMAIN f THEN [f EXCEPT ![p] = chunk] ELSE f

\* f.write(chunk) on a handle of p: an unlinked file no longer shows in the directory
FsWrite(f, p, chunk) == IF p \in DOMAIN f THEN [f EXCEPT ![p] = @ \o chunk] ELSE f

\* Path.unlink(): removes the file, FileNotFoundError when it is missing
Unlink(f, p) ==
    [fs |-> [q \in (DOMAIN f) \ {p} |-> f[q]],
     err |-> IF p \in DOMAIN f THEN None ELSE "FileNotFoundError"]

\* a cleanup that lets FileNotFoundError escape
UnlinkIgnoringMissing_Strict(f, p) == Unlink(f, p)

\* a cleanup that forgets to delete the file
UnlinkIgnoringMissing_NoDelete(f, p) == [fs |-> f, err |-> None]

\* main.py:96-99 / 114-117  try: path.unlink() except FileNotFoundError: pass
UnlinkIgnoringMissing(f, p) == [fs |-> Unlink(f, p).fs, err |-> None]

(***************************************************************************)
(*   app/model.py, app/loader.py, app/utils/postprocess.py, app/core.py,   *)
(*   and lifespan / health of app/main.py                                  *)
(***************************************************************************)

\* ------------------------------------------------------------------ bounds
\* longest list handed to format_detections
MaxDet == 2

\* an optional value: present with v, or absent (None / no attribute)
Opt(x) == [has |-> TRUE, v |-> x]
Absent == [has |-> FALSE, v |-> <<>>]

\* image paths handed to infer, as character sequences
ImagePaths == {<<"a">>, <<"d", "/", "/", "a">>}

RECURSIVE Join(_)
Join(parts) ==
    IF parts = <<>> THEN <<>>
    ELSE IF Len(parts) = 1 THEN parts[1]
    ELSE parts[1] \o <<"/">> \o Join(Tail(parts))

\* model.py:33  str(Path(image_path)): repeated and trailing separators go
PathStr(s) ==
    LET parts == Components(s, <<>>, <<>>)
        root == IF s # <<>> /\ Head(s) = "/" THEN <<"/">> ELSE <<>>
    IN IF parts = <<>> /\ root = <<>> THEN <<".">> ELSE root \o Join(parts)

\* class-name tables the detector may carry (class index |-> label)
NoNames == <<>>
CocoNames == (0 :> "cat") @@ (1 :> "dog")

\* boxes of the detector output: [x1, y1, x2, y2]
Box1 == <<1, 2, 3, 4>>
Box2 == <<5, 6, 7, 8>>

\* class values come as floats; they are counted in halves (3 is 1.5)
IntOf(c) == c \div 2

\* str(n) of a class index
IntToStr(n) == IF n = 0 THEN "0" ELSE IF n = 1 THEN "1" ELSE IF n = 2 THEN "2" ELSE "n"

\* postprocess.py:16-22  one detection of the stable schema
Detection(b, sc, c, names) ==
    [box |-> <<b[1], b[2], b[3], b[4]>>,
     score |-> sc,
     class_id |-> IntOf(c),
     label |-> IF IntOf(c) \in DOMAIN names THEN names[IntOf(c)] ELSE IntToStr(IntOf(c))]

\* a conversion that leaves out the last detection
RECURSIVE FormatDetections_DropLast(_, _, _, _)
FormatDetections_DropLast(boxes, scores, classes, names) ==
    LET nm == IF names.has THEN names.v ELSE NoNames
    IN IF Len(boxes) <= 1 \/ Len(scores) <= 1 \/ Len(classes) <= 1 THEN <<>>
       ELSE <<Detection(Head(boxes), Head(scores), Head(classes), nm)>>
            \o FormatDetections_DropLast(Tail(boxes), Tail(scores), Tail(classes), names)

\* postprocess.py:3-23  format_detections: zip stops at the shortest list;
\* names is optional (`names or {}`)
RECURSIVE FormatDetections(_, _, _, _)
FormatDetections(boxes, scores, classes, names) ==
    LET nm == IF names.has THEN names.v ELSE NoNames
    IN IF boxes = <<>> \/ scores = <<>> \/ classes = <<>> THEN <<>>
       ELSE <<Detection(Head(boxes), Head(scores), Head(classes), nm)>>
            \o FormatDetections(Tail(boxes), Tail(scores), Tail(classes), names)

\* model objects: class, whether self.model holds a detector, and the
\* attributes mode / names / version (None: the object has no such attribute)
StubInit ==
    [cls |-> "StubModel", detector |-> FALSE, mode |-> None,
     names |-> NoNames, version |-> None]

\* loader.py:21-25  YolovXAdapter.__init__
YoloInit ==
    [cls |-> "YolovXAdapter", detector |-> FALSE, mode |-> "dry-run",
     names |-> NoNames, version |-> None]

\* weights arguments: none, empty, an existing file, a missing file
WeightsArgs == {None, "", "good.pt", "/abs/missing.pt"}

\* loader.py:174-181  get_model resolves a relative path against PROJECT_ROOT
NormWeights(w) == IF w = "good.pt" THEN "/root/good.pt" ELSE w

\* paths load may be called with
LoadWeights == {NormWeights(w) : w \in WeightsArgs}

\* os.path.exists on a weights path
WeightsExist(w) == w = "/root/good.pt"

\* truth value of an optional string
Truthy(x) == x # None /\ x # ""

\* version of the ultralytics package when it is installed
UlVersion == "8.0"

\* what the process finds: is ultralytics importable, does the YOLO
\* constructor work, the class names of a detector, the environment variables
Envs ==
    [kind : {"process"},
     importOK : BOOLEAN,
     ctorOK : BOOLEAN,
     detNames : {NoNames, CocoNames},
     envAdapter : {None, "YOLOv8"},
     envWeights : {None, "good.pt", "/abs/missing.pt"}]

\* a load that reports a failed detector construction as dry-run
YoloLoad_DryRunOnFailure(obj, w, e) ==
    IF ~e.importOK \/ ~e.ctorOK
       THEN [obj EXCEPT !.detector = FALSE, !.mode = "dry-run", !.names = NoNames]
       ELSE [obj EXCEPT !.version = UlVersion, !.detector = TRUE,
                        !.mode = IF Truthy(w) /\ WeightsExist(w) THEN "inference"
                                 ELSE "no-weights",
                        !.names = e.detNames]

\* loader.py:27-66  YolovXAdapter.load
YoloLoad(obj, w, e) ==
    IF ~e.importOK
       THEN \* lines 61-66: the import failed
            [obj EXCEPT !.detector = FALSE, !.mode = "dry-run", !.names = NoNames]
       ELSE IF Truthy(w) /\ WeightsExist(w)
       THEN IF e.ctorOK
               THEN [obj EXCEPT !.version = UlVersion, !.detector = TRUE,
                                !.mode = "inference", !.names = e.detNames]
               ELSE [obj EXCEPT !.version = UlVersion, !.detector = FALSE,
                                !.mode = "no-weights", !.names = NoNames]
       ELSE IF e.ctorOK
               THEN [obj EXCEPT !.version = UlVersion, !.detector = TRUE,
                                !.mode = "no-weights", !.names = e.detNames]
               ELSE [obj EXCEPT !.version = UlVersion, !.detector = FALSE,
                                !.mode = "no-weights", !.names = NoNames]

\* model.py:26-28  StubModel.load: prints, changes nothing
StubLoad(obj, w, e) == obj

\* obj.load(w)
ModelLoad(obj, w, e) ==
    IF obj.cls = "StubModel" THEN StubLoad(obj, w, e) ELSE YoloLoad(obj, w, e)

\* adapter selectors
AdapterArgs == {None, "stub", "YOLOv8"}

\* loader.py:164-171  the adapter chosen for a selector
ChosenAdapter(a) ==
    LET given == IF Truthy(a) THEN a ELSE "stub"
        lower == IF given = "YOLOv8" THEN "yolov8" ELSE given
    IN IF lower \in {"yolov8", "yolovx", "yolox"} THEN "yolovx" ELSE "stub"

\* loader.py:158-196  get_model
GetModel(a, w, e) ==
    LET nw == IF Truthy(w) THEN NormWeights(w) ELSE w
    IN IF ChosenAdapter(a) = "yolovx"
          THEN ModelLoad(YoloInit, nw, e)
          ELSE ModelLoad(StubInit, nw, e)

\* the "model" entry of a result of the real adapter
YoloMeta(obj) == [adapter |-> "yolovx", mode |-> obj.mode, version |-> obj.version]

\* a stub that reports the weights it was asked to load as inference
StubInfer_Inference(img) ==
    [image |-> PathStr(img), width |-> None, height |-> None,
     detections |-> <<>>,
     model |-> [adapter |-> "stub", mode |-> "inference", version |-> None]]

\* model.py:30-38  StubModel.infer
StubInfer(img) ==
    [image |-> PathStr(img), width |-> None, height |-> None,
     detections |-> <<>>,
     model |-> [adapter |-> "stub", mode |-> "dry-run", version |-> None]]

\* loader.py:135-137  infer without a detector
EmptyResult(obj, img) ==
    [image |-> img, width |-> None, height |-> None, detections |-> <<>>,
     model |-> YoloMeta(obj)]

\* what the detector call gives: it raises, or hands back results
NoRaw == [kind |-> "none", msg |-> "", shape |-> Absent, boxes |-> FALSE,
          xyxy |-> Absent, conf |-> Absent, cls |-> Absent, convFail |-> FALSE]
RawOutputs ==
    {[NoRaw EXCEPT !.kind = "raise", !.msg = "detector failed"],
     [NoRaw EXCEPT !.kind = "empty"],
     [NoRaw EXCEPT !.kind = "result", !.shape = Opt(<<4, 6>>)],
     [NoRaw EXCEPT !.kind = "result", !.boxes = TRUE, !.xyxy = Opt(<<Box1, Box2>>),
                   !.conf = Opt(<<9>>), !.cls = Opt(<<2, 1>>), !.convFail = TRUE]}
    \cup {[NoRaw EXCEPT !.kind = "result", !.shape = Opt(<<4, 6>>), !.boxes = TRUE,
                        !.xyxy = x, !.conf = c, !.cls = k] :
            x \in {Absent, Opt(<<Box1, Box2>>)},
            c \in {Absent, Opt(<<9>>)},
            k \in {Absent, Opt(<<2, 1, 0>>)}}

Min3(a, b, c) == Min(Min(a, b), c)

RECURSIVE Repeat(_, _)
Repeat(x, n) == IF n <= 0 THEN <<>> ELSE <<x>> \o Repeat(x, n - 1)

\* an early return that forgets the detections
NoBoxesResult_NoDetections(obj, img, width, height) ==
    [image |-> img, width |-> width, height |-> height, model |-> YoloMeta(obj)]

\* loader.py:85-86  the result has no boxes attribute
NoBoxesResult(obj, img, width, height) ==
    [image |-> img, width |-> width, height |-> height, detections |-> <<>>,
     model |-> YoloMeta(obj)]

\* loader.py:68-132  _parse_results
ParseResults(obj, raw, img) ==
    IF raw.kind = "empty"
       THEN \* results[0] raises inside the try
            [image |-> img, width |-> None, height |-> None, detections |-> <<>>,
             model |-> YoloMeta(obj)]
       ELSE LET width == IF raw.shape.has THEN raw.shape.v[2] ELSE None
                height == IF raw.shape.has THEN raw.shape.v[1] ELSE None
                boxes == IF raw.xyxy.has THEN raw.xyxy.v ELSE <<>>
                scores == IF raw.conf.has THEN raw.conf.v ELSE Repeat(0, Len(boxes))
                classes == IF raw.cls.has THEN raw.cls.v ELSE Repeat(0, Len(boxes))
                n == Min3(Len(boxes), Len(scores), Len(classes))
            IN IF ~raw.boxes
                  THEN NoBoxesResult(obj, img, width, height)
                  ELSE [image |-> img, width |-> width, height |-> height,
                        detections |->
                            IF raw.convFail THEN <<>>
                            ELSE FormatDetections(SubSeq(boxes, 1, n), SubSeq(scores, 1, n),
                                                  SubSeq(classes, 1, n), Opt(obj.names)),
                        model |-> YoloMeta(obj)]

\* what a call of infer ends in
NoResult == [none |-> TRUE]
Returned(res) == [raised |-> FALSE, msg |-> "", result |-> res]
Raised(m) == [raised |-> TRUE, msg |-> m, result |-> NoResult]

\* loader.py:134-149  YolovXAdapter.infer
YoloInfer(obj, img, raw) ==
    IF ~obj.detector THEN Returned(EmptyResult(obj, img))
    ELSE IF raw.kind = "raise" THEN Raised(raw.msg)
    ELSE Returned(ParseResults(obj, raw, img))

\* obj.infer(img)
InferOutcome(obj, img, raw) ==
    IF obj.cls = "StubModel" THEN Returned(StubInfer(img)) ELSE YoloInfer(obj, img, raw)

\* model objects a caller may hand to predict_inproc
SuppliedModels ==
    {NoModel, StubInit,
     YoloLoad(YoloInit, "/root/good.pt",
              [kind |-> "process", importOK |-> TRUE, ctorOK |-> TRUE,
               detNames |-> CocoNames, envAdapter |-> None, envWeights |-> None])}

\* a bridge that builds a model even when one is supplied
ResolveModel_AlwaysBuild(supplied, a, w, e) ==
    [obj |-> GetModel(IF Truthy(a) THEN a
                      ELSE IF e.envAdapter # None THEN e.envAdapter ELSE "stub",
                      IF Truthy(w) THEN w ELSE e.envWeights, e),
     constructed |-> 1]

\* core.py:19-22  the model predict_inproc uses
ResolveModel(supplied, a, w, e) ==
    IF supplied # NoModel
       THEN [obj |-> supplied, constructed |-> 0]
       ELSE [obj |-> GetModel(IF Truthy(a) THEN a
                              ELSE IF e.envAdapter # None THEN e.envAdapter ELSE "stub",
                              IF Truthy(w) THEN w ELSE e.envWeights, e),
             constructed |-> 1]

\* core.py:7-24  predict_inproc
PredictInproc(img, supplied, a, w, raw, e) ==
    LET rm == ResolveModel(supplied, a, w, e)
    IN [used |-> rm.obj, constructed |-> rm.constructed, inferCalls |-> 1,
        ret |-> InferOutcome(rm.obj, img, raw)]

\* a health answer whose model is null when no model is loaded
HealthBody_NullWhenUnloaded(M, obj) ==
    [status |-> "ok",
     model |-> IF M = None
                  THEN [null |-> TRUE, adapter |-> None, mode |-> None, version |-> None]
                  ELSE [null |-> FALSE, adapter |-> obj.cls, mode |-> obj.mode,
                        version |-> obj.version]]

\* main.py:52-64  health: the body; null tells a JSON null from an object
HealthBody(M, obj) ==
    [status |-> "ok",
     model |-> [null |-> FALSE,
                adapter |-> IF M # None THEN obj.cls ELSE None,
                mode |-> IF M # None THEN obj.mode ELSE None,
                version |-> IF M # None THEN obj.version ELSE None]]

\* one request arrives (slot 1); the other slot stays idle
InitServer ==
    /\ MODEL \in {None, "StubModel", "YolovXAdapter"}
    /\ pillow \in BOOLEAN
    /\ fs = [q \in {OldPath} |-> <<1>>]
    /\ tampered = {}
    /\ nextUuid = 1
    /\ \E ct \in ContentTypes :
          content_type = [r \in Reqs |-> IF r = 1 THEN ct ELSE None]
    /\ \E fn \in Filenames :
          filename = [r \in Reqs |-> IF r = 1 THEN fn ELSE <<>>]
    /\ \E data \in Payloads :
          payload = [r \in Reqs |-> IF r = 1 THEN data ELSE <<>>]
    /\ spc = [r \in Reqs |-> IF r = 1 THEN "start" ELSE "idle"]
    /\ path = [r \in Reqs |-> NoPath]
    /\ uploaded = [r \in Reqs |-> 0]
    /\ readPos = [r \in Reqs |-> 0]
    /\ written = [r \in Reqs |-> <<>>]
    /\ fstate = [r \in Reqs |-> "none"]
    /\ streamClosed = [r \in Reqs |-> FALSE]
    /\ pending = [r \in Reqs |-> 0]
    /\ status = [r \in Reqs |-> 0]
    /\ respPath = [r \in Reqs |-> NoPath]
    /\ ioFault = [r \in Reqs |-> FALSE]
    /\ inferRaised = [r \in Reqs |-> FALSE]
    /\ inferErr = [r \in Reqs |-> None]
    /\ detail = [r \in Reqs |-> NoDetail]
    \* the client is not exercised
    /\ variant = "sync"
    /\ fileExists = TRUE
    /\ ctor = IdleCtor
    /\ base_url = RStripSlash(ctor.base_url)
    /\ headers = InitHeaders(ctor.api_key)
    /\ history = <<>>
    /\ retries = 1
    /\ backoff_factor = 0
    /\ retry_statuses = {}
    /\ cpc = "idle"
    /\ attempt = 0
    /\ last_exc = NoExc
    /\ exc = NoExc
    /\ outcomes = <<>>
    /\ waits = <<>>
    /\ result = None
    /\ raised = NoExc
    \* no async twin call, no model life
    /\ acall = NewCall("idle")
    /\ phase = "idle"
    /\ env = [kind |-> "none"]
    /\ mdl = NoModel
    /\ out = [op |-> "none"]

\* an inference call made directly in the handler, which keeps the event loop
\* until it returns
HoldsLoop_DirectCall(q) == spc[q] = "infer"

\* main.py:127  await asyncio.to_thread(MODEL.infer, ...): does the inference
\* of request q keep the event loop? It runs in a worker thread and the
\* handler is suspended, so it never does
HoldsLoop(q) == FALSE

\* the event loop can run a step of the handler of request r
LoopFree(r) == \A q \in Reqs \ {r} : ~HoldsLoop(q)

\* main.py:72-75  reject a content type that is not allowed
RejectContentType(r) ==
    /\ spc[r] = "start"
    /\ LoopFree(r)
    /\ NormContentType(content_type[r]) \notin ALLOWED_CONTENT_TYPES
    /\ status' = [status EXCEPT ![r] = 400]
    /\ detail' = [detail EXCEPT ![r] = [msg |-> "unsupported content type",
                                        arg |-> NormContentType(content_type[r])]]
    /\ spc' = [spc EXCEPT ![r] = "done"]
    /\ UNCHANGED <<MODEL, pillow, fs, tampered, nextUuid, content_type, filename,
                   payload, path, uploaded, readPos, written, fstate,
                   streamClosed, pending, respPath, ioFault, inferRaised>>
    /\ UNCHANGED <<clientVars, acall, adapterVars, inferErr>>

\* main.py:72-86  accepted content type: derive the path, open it for writing;
\* fault = TRUE: path.open raises OSError, control goes to the finally clause
OpenUpload(r, fault) ==
    /\ spc[r] = "start"
    /\ LoopFree(r)
    /\ NormContentType(content_type[r]) \in ALLOWED_CONTENT_TYPES
    /\ path' = [path EXCEPT ![r] = UploadPath(nextUuid, filename[r])]
    /\ nextUuid' = nextUuid + 1
    /\ uploaded' = [uploaded EXCEPT ![r] = 0]
    /\ IF fault
          THEN /\ ioFault' = [ioFault EXCEPT ![r] = TRUE]
               /\ pending' = [pending EXCEPT ![r] = 500]
               /\ spc' = [spc EXCEPT ![r] = "closing"]
               /\ UNCHANGED <<fs, fstate>>
          ELSE /\ fs' = FsCreate(fs, path'[r])
               /\ fstate' = [fstate EXCEPT ![r] = "open"]
               /\ spc' = [spc EXCEPT ![r] = "read"]
               /\ UNCHANGED <<ioFault, pending>>
    /\ UNCHANGED <<MODEL, pillow, tampered, content_type, filename, payload,
                   readPos, written, streamClosed, status, respPath, inferRaised>>
    /\ UNCHANGED <<clientVars, acall, adapterVars, inferErr, detail>>

\* a ceiling that already refuses a payload of exactly MAX_UPLOAD_SIZE bytes
TooLarge_Inclusive(total) == total >= MAX_UPLOAD_SIZE

\* main.py:92  if uploaded > MAX_UPLOAD_SIZE
TooLarge(total) == total > MAX_UPLOAD_SIZE

\* main.py:89-101  one non-empty chunk: count it, then either abort with 413
\* (close f, unlink the partial file) or write it.
\* fault: "none", "read" (file.read raises) or "write" (f.write raises)
ReadChunk(r, fault) ==
    /\ spc[r] = "read"
    /\ LoopFree(r)
    /\ LET chunk == ReadChunkOf(payload[r], readPos[r])
           total == uploaded[r] + Len(chunk)
       IN IF fault = "read"
          THEN /\ ioFault' = [ioFault EXCEPT ![r] = TRUE]
               /\ pending' = [pending EXCEPT ![r] = 500]
               /\ fstate' = [fstate EXCEPT ![r] = "closed"]
               /\ spc' = [spc EXCEPT ![r] = "closing"]
               /\ UNCHANGED <<fs, uploaded, readPos, written>>
          ELSE /\ chunk # <<>>
               /\ readPos' = [readPos EXCEPT ![r] = @ + Len(chunk)]
               /\ uploaded' = [uploaded EXCEPT ![r] = total]
               /\ IF TooLarge(total)
                     THEN /\ fault = "none"
                          /\ fs' = UnlinkIgnoringMissing(fs, path[r]).fs
                          /\ IF UnlinkIgnoringMissing(fs, path[r]).err = None
                                THEN pending' = [pending EXCEPT ![r] = 413]
                                ELSE pending' = [pending EXCEPT ![r] = 500]
                          /\ fstate' = [fstate EXCEPT ![r] = "closed"]
                          /\ spc' = [spc EXCEPT ![r] = "closing"]
                          /\ UNCHANGED <<written, ioFault>>
                     ELSE IF fault = "write"
                     THEN /\ ioFault' = [ioFault EXCEPT ![r] = TRUE]
                          /\ pending' = [pending EXCEPT ![r] = 500]
                          /\ fstate' = [fstate EXCEPT ![r] = "closed"]
                          /\ spc' = [spc EXCEPT ![r] = "closing"]
                          /\ UNCHANGED <<fs, written>>
                     ELSE /\ fs' = FsWrite(fs, path[r], chunk)
                          /\ written' = [written EXCEPT ![r] = @ \o chunk]
                          /\ UNCHANGED <<fstate, spc, pending, ioFault>>
    /\ UNCHANGED <<MODEL, pillow, tampered, nextUuid, content_type, filename,
                   payload, path, streamClosed, status, respPath, inferRaised>>
    /\ UNCHANGED <<clientVars, acall, adapterVars, inferErr, detail>>

\* main.py:89-118  the read that returns no bytes ends the loop, f is closed,
\* the saved file is verified when Pillow is importable
FinishUpload(r) ==
    /\ spc[r] = "read"
    /\ LoopFree(r)
    /\ ReadChunkOf(payload[r], readPos[r]) = <<>>
    /\ fstate' = [fstate EXCEPT ![r] = "closed"]
    /\ IF pillow /\ ~(path[r] \in DOMAIN fs /\ IsImage(fs[path[r]]))
          THEN /\ fs' = UnlinkIgnoringMissing(fs, path[r]).fs
               /\ IF UnlinkIgnoringMissing(fs, path[r]).err = None
                     THEN pending' = [pending EXCEPT ![r] = 400]
                     ELSE pending' = [pending EXCEPT ![r] = 500]
          ELSE UNCHANGED <<fs, pending>>
    /\ spc' = [spc EXCEPT ![r] = "closing"]
    /\ UNCHANGED <<MODEL, pillow, tampered, nextUuid, content_type, filename,
                   payload, path, uploaded, readPos, written, streamClosed,
                   status, respPath, ioFault, inferRaised>>
    /\ UNCHANGED <<clientVars, acall, adapterVars, inferErr, detail>>

\* main.py:119-123  finally: await file.close(); then the exception in flight
\* leaves the handler, or the handler answers without a model, or calls infer
CloseStream(r) ==
    /\ spc[r] = "closing"
    /\ LoopFree(r)
    /\ streamClosed' = [streamClosed EXCEPT ![r] = TRUE]
    /\ IF pending[r] # 0
          THEN /\ status' = [status EXCEPT ![r] = pending[r]]
               /\ detail' = [detail EXCEPT ![r] = PendingDetail(pending[r])]
               /\ spc' = [spc EXCEPT ![r] = "done"]
               /\ UNCHANGED respPath
          ELSE IF MODEL = None
          THEN /\ status' = [status EXCEPT ![r] = 200]
               /\ respPath' = [respPath EXCEPT ![r] = path[r]]
               /\ spc' = [spc EXCEPT ![r] = "done"]
               /\ UNCHANGED detail
          ELSE /\ spc' = [spc EXCEPT ![r] = "infer"]
               /\ UNCHANGED <<status, respPath, detail>>
    /\ UNCHANGED <<MODEL, pillow, fs, tampered, nextUuid, content_type, filename,
                   payload, path, uploaded, readPos, written, fstate, pending,
                   ioFault, inferRaised>>
    /\ UNCHANGED <<clientVars, acall, adapterVars, inferErr>>

\* loader.py:134-149, model.py:30-38  can MODEL.infer raise: only the detector
\* call of the real adapter does
InferMayRaise(m) == m = "YolovXAdapter"

\* an inference failure reported without its message
ErrorDetail_Generic(e) == [msg |-> "Internal Server Error", arg |-> ""]

\* main.py:129-130  HTTPException(status_code=500, detail=str(e))
ErrorDetail(e) == [msg |-> e, arg |-> ""]

\* main.py:125-130  await asyncio.to_thread(MODEL.infer, str(path)) completes:
\* err = None when infer returned, else the message of what it raised
InferDone(r, err) ==
    /\ spc[r] = "infer"
    /\ err # None => InferMayRaise(MODEL)
    /\ IF err # None
          THEN /\ status' = [status EXCEPT ![r] = 500]
               /\ detail' = [detail EXCEPT ![r] = ErrorDetail(err)]
               /\ inferRaised' = [inferRaised EXCEPT ![r] = TRUE]
               /\ inferErr' = [inferErr EXCEPT ![r] = err]
               /\ UNCHANGED respPath
          ELSE /\ status' = [status EXCEPT ![r] = 200]
               /\ respPath' = [respPath EXCEPT ![r] = path[r]]
               /\ UNCHANGED <<inferRaised, inferErr, detail>>
    /\ spc' = [spc EXCEPT ![r] = "done"]
    /\ UNCHANGED <<MODEL, pillow, fs, tampered, nextUuid, content_type, filename,
                   payload, path, uploaded, readPos, written, fstate,
                   streamClosed, pending, ioFault>>
    /\ UNCHANGED <<clientVars, acall, adapterVars>>

\* another process removes the file of request r from UPLOAD_DIR
ExternalUnlink(r) ==
    /\ spc[r] \notin {"idle", "done"}
    /\ path[r] \in DOMAIN fs
    /\ fs' = Unlink(fs, path[r]).fs
    /\ tampered' = tampered \cup {path[r]}
    /\ UNCHANGED <<MODEL, pillow, nextUuid, content_type, filename, payload,
                   spc, path, uploaded, readPos, written, fstate, streamClosed,
                   pending, status, respPath, ioFault, inferRaised>>
    /\ UNCHANGED <<clientVars, acall, adapterVars, inferErr, detail>>

NextServer ==
    \/ \E r \in Reqs : RejectContentType(r)
    \/ \E r \in Reqs, fault \in BOOLEAN : OpenUpload(r, fault)
    \/ \E r \in Reqs, fault \in {"none", "read", "write"} : ReadChunk(r, fault)
    \/ \E r \in Reqs : FinishUpload(r)
    \/ \E r \in Reqs : CloseStream(r)
    \/ \E r \in Reqs, err \in InferErrors \cup {None} : InferDone(r, err)
    \/ \E r \in Reqs : ExternalUnlink(r)

NextClient ==
    \/ RaiseFileNotFound
    \/ EnterLoop
    \/ \E o \in Outcomes : Attempt(o)
    \/ Except
    \/ RaiseFinal

\* calls of YoloHTTPClient.predict / predict_async
SpecClient == InitClient /\ [][NextClient]_vars

\* requests to POST /predict
SpecServer == InitServer /\ [][NextServer]_vars

(***************************************************************************)
(*   Two /predict requests in flight at once                               *)
(***************************************************************************)

\* payload of n bytes whose first byte is b
Pattern(n, b) == [i \in 1..n |-> IF i = 1 THEN b ELSE i % 2]

\* payloads of the two requests: empty, one chunk, several chunks, at the
\* ceiling, over it; decodable (first byte 1) or not
ConcPayloads ==
    {<<>>} \cup {Pattern(n, b) : n \in {1, CHUNK_SIZE + 1, MAX_UPLOAD_SIZE, MaxPayload},
                                 b \in Bytes}

\* both requests arrive; they name their files alike
InitConc ==
    /\ MODEL \in {None, "StubModel", "YolovXAdapter"}
    /\ pillow \in BOOLEAN
    /\ fs = [q \in {OldPath} |-> <<1>>]
    /\ tampered = {}
    /\ nextUuid = 1
    /\ content_type \in [Reqs -> {"image/jpeg", "text/plain"}]
    /\ \E fn \in {<<"a">>, <<"d", "/", "a">>} :
          filename = [r \in Reqs |-> IF r = 1 THEN <<"a">> ELSE fn]
    /\ payload \in [Reqs -> ConcPayloads]
    /\ spc = [r \in Reqs |-> "start"]
    /\ path = [r \in Reqs |-> NoPath]
    /\ uploaded = [r \in Reqs |-> 0]
    /\ readPos = [r \in Reqs |-> 0]
    /\ written = [r \in Reqs |-> <<>>]
    /\ fstate = [r \in Reqs |-> "none"]
    /\ streamClosed = [r \in Reqs |-> FALSE]
    /\ pending = [r \in Reqs |-> 0]
    /\ status = [r \in Reqs |-> 0]
    /\ respPath = [r \in Reqs |-> NoPath]
    /\ ioFault = [r \in Reqs |-> FALSE]
    /\ inferRaised = [r \in Reqs |-> FALSE]
    /\ inferErr = [r \in Reqs |-> None]
    /\ detail = [r \in Reqs |-> NoDetail]
    \* the client is not exercised
    /\ variant = "sync"
    /\ fileExists = TRUE
    /\ ctor = IdleCtor
    /\ base_url = RStripSlash(ctor.base_url)
    /\ headers = InitHeaders(ctor.api_key)
    /\ history = <<>>
    /\ retries = 1
    /\ backoff_factor = 0
    /\ retry_statuses = {}
    /\ cpc = "idle"
    /\ attempt = 0
    /\ last_exc = NoExc
    /\ exc = NoExc
    /\ outcomes = <<>>
    /\ waits = <<>>
    /\ result = None
    /\ raised = NoExc
    \* no async twin call, no model life
    /\ acall = NewCall("idle")
    /\ phase = "idle"
    /\ env = [kind |-> "none"]
    /\ mdl = NoModel
    /\ out = [op |-> "none"]

\* the handlers run on one event loop and interleave where they await; no I/O
\* fault and no outside deletion here
NextConc ==
    \/ \E r \in Reqs : RejectContentType(r)
    \/ \E r \in Reqs : OpenUpload(r, FALSE)
    \/ \E r \in Reqs : ReadChunk(r, "none")
    \/ \E r \in Reqs : FinishUpload(r)
    \/ \E r \in Reqs : CloseStream(r)
    \/ \E r \in Reqs, err \in InferErrors \cup {None} : InferDone(r, err)

SpecConc == InitConc /\ [][NextConc]_vars

(***************************************************************************)
(*   Uploads under hostile file names                                      *)
(***************************************************************************)

\* file names with directories, parent components, an absolute path, a
\* trailing separator, nothing but a separator, and the empty name
HostileFilenames ==
    Filenames \cup {<<"/", "e", "/", "p">>, <<"..", "/", "..", "/", "x">>,
                    <<"d", "/", "..">>, <<"/">>, <<"a", "/">>}

\* two requests, each with any of the names; accepted or refused by type
InitNames ==
    /\ MODEL = None
    /\ pillow = FALSE
    /\ fs = [q \in {OldPath} |-> <<1>>]
    /\ tampered = {}
    /\ nextUuid = 1
    /\ content_type \in [Reqs -> {"image/jpeg", "text/plain"}]
    /\ filename \in [Reqs -> HostileFilenames]
    /\ \E data \in {<<1>>, Pattern(MaxPayload, 1)} : payload = [r \in Reqs |-> data]
    /\ spc = [r \in Reqs |-> "start"]
    /\ path = [r \in Reqs |-> NoPath]
    /\ uploaded = [r \in Reqs |-> 0]
    /\ readPos = [r \in Reqs |-> 0]
    /\ written = [r \in Reqs |-> <<>>]
    /\ fstate = [r \in Reqs |-> "none"]
    /\ streamClosed = [r \in Reqs |-> FALSE]
    /\ pending = [r \in Reqs |-> 0]
    /\ status = [r \in Reqs |-> 0]
    /\ respPath = [r \in Reqs |-> NoPath]
    /\ ioFault = [r \in Reqs |-> FALSE]
    /\ inferRaised = [r \in Reqs |-> FALSE]
    /\ inferErr = [r \in Reqs |-> None]
    /\ detail = [r \in Reqs |-> NoDetail]
    \* the client is not exercised
    /\ variant = "sync"
    /\ fileExists = TRUE
    /\ ctor = IdleCtor
    /\ base_url = RStripSlash(ctor.base_url)
    /\ headers = InitHeaders(ctor.api_key)
    /\ history = <<>>
    /\ retries = 1
    /\ backoff_factor = 0
    /\ retry_statuses = {}
    /\ cpc = "idle"
    /\ attempt = 0
    /\ last_exc = NoExc
    /\ exc = NoExc
    /\ outcomes = <<>>
    /\ waits = <<>>
    /\ result = None
    /\ raised = NoExc
    \* no async twin call, no model life
    /\ acall = NewCall("idle")
    /\ phase = "idle"
    /\ env = [kind |-> "none"]
    /\ mdl = NoModel
    /\ out = [op |-> "none"]

NextNames ==
    \/ \E r \in Reqs : RejectContentType(r)
    \/ \E r \in Reqs : OpenUpload(r, FALSE)
    \/ \E r \in Reqs : ReadChunk(r, "none")
    \/ \E r \in Reqs : FinishUpload(r)
    \/ \E r \in Reqs : CloseStream(r)

SpecNames == InitNames /\ [][NextNames]_vars

(***************************************************************************)
(*   predict, then predict_async on the same client, file and responses    *)
(***************************************************************************)

\* http.py:94  for attempt in range(1, self.retries + 1)
AsyncInRange(a) == a >= 1 /\ a < retries + 1

\* an async loop that gives up one attempt early
AsyncIsLastAttempt_Early(a) == a = retries - 1

\* http.py:108  if attempt == self.retries: break
AsyncIsLastAttempt(a) == a = retries

\* http.py:107  last_exc = e
AsyncRecordFailure(prev, e) == e

\* the synchronous call is over
SyncDone == cpc \in {"returned", "raised"}

InitPair ==
    /\ variant = "sync"
    /\ fileExists \in BOOLEAN
    /\ ctor \in [base_url : {"http://h/"}, api_key : {None}, retries : RetriesArgs]
    /\ retries = InitRetries(ctor.retries)
    /\ base_url = RStripSlash(ctor.base_url)
    /\ headers = InitHeaders(ctor.api_key)
    /\ history = <<>>
    /\ backoff_factor \in BackoffFactors
    /\ \E rs \in RetryStatusArgs : retry_statuses = InitRetryStatuses(rs)
    /\ cpc = "start"
    /\ attempt = 0
    /\ last_exc = NoExc
    /\ exc = NoExc
    /\ outcomes = <<>>
    /\ waits = <<>>
    /\ result = None
    /\ raised = NoExc
    /\ acall = NewCall("start")
    \* the server is not exercised
    /\ MODEL = None
    /\ pillow = FALSE
    /\ fs = [q \in {OldPath} |-> <<1>>]
    /\ tampered = {}
    /\ nextUuid = 1
    /\ content_type = [r \in Reqs |-> None]
    /\ filename = [r \in Reqs |-> <<>>]
    /\ payload = [r \in Reqs |-> <<>>]
    /\ spc = [r \in Reqs |-> "idle"]
    /\ path = [r \in Reqs |-> NoPath]
    /\ uploaded = [r \in Reqs |-> 0]
    /\ readPos = [r \in Reqs |-> 0]
    /\ written = [r \in Reqs |-> <<>>]
    /\ fstate = [r \in Reqs |-> "none"]
    /\ streamClosed = [r \in Reqs |-> FALSE]
    /\ pending = [r \in Reqs |-> 0]
    /\ status = [r \in Reqs |-> 0]
    /\ respPath = [r \in Reqs |-> NoPath]
    /\ ioFault = [r \in Reqs |-> FALSE]
    /\ inferRaised = [r \in Reqs |-> FALSE]
    /\ inferErr = [r \in Reqs |-> None]
    /\ detail = [r \in Reqs |-> NoDetail]
    /\ phase = "idle"
    /\ env = [kind |-> "none"]
    /\ mdl = NoModel
    /\ out = [op |-> "none"]

\* an async call that posts without looking for the file
AsyncRaiseFileNotFound_NoCheck ==
    /\ SyncDone
    /\ acall.pc = "start"
    /\ ~fileExists
    /\ acall' = [acall EXCEPT !.attempt = 1, !.pc = "attempt"]
    /\ UNCHANGED <<clientVars, serverVars, adapterVars>>

\* http.py:85-87  the image path does not exist
AsyncRaiseFileNotFound ==
    /\ SyncDone
    /\ acall.pc = "start"
    /\ ~fileExists
    /\ acall' = [acall EXCEPT !.raised = FileNotFoundError, !.pc = "raised"]
    /\ UNCHANGED <<clientVars, serverVars, adapterVars>>

\* http.py:88-94  enter the attempt loop (last_exc = None)
AsyncEnterLoop ==
    /\ SyncDone
    /\ acall.pc = "start"
    /\ fileExists
    /\ acall' = IF AsyncInRange(1)
                   THEN [acall EXCEPT !.last_exc = NoExc, !.attempt = 1, !.pc = "attempt"]
                   ELSE [acall EXCEPT !.last_exc = NoExc, !.pc = "final"]
    /\ UNCHANGED <<clientVars, serverVars, adapterVars>>

\* http.py:95-105  one upload of the async call; attempt i meets what attempt i
\* of the synchronous call met, if that call got as far
AsyncAttempt(o) ==
    /\ SyncDone
    /\ acall.pc = "attempt"
    /\ acall.attempt <= Len(outcomes) => o = outcomes[acall.attempt]
    /\ LET seen == [acall EXCEPT !.outcomes = Append(@, o)]
       IN acall' =
            IF o.net
               THEN [seen EXCEPT !.exc = RequestError, !.pc = "except"]
            ELSE IF o.status \in retry_statuses
               THEN [seen EXCEPT !.last_exc = HTTPStatusError(o.status),
                                 !.exc = HTTPStatusError(o.status), !.pc = "except"]
            ELSE IF RaisesForStatus(o.status)
               THEN [seen EXCEPT !.exc = HTTPStatusError(o.status), !.pc = "except"]
            ELSE [seen EXCEPT !.result = o.body, !.pc = "returned"]
    /\ UNCHANGED <<clientVars, serverVars, adapterVars>>

\* http.py:106-111  the except clause: record, break or await asyncio.sleep
AsyncExcept ==
    /\ SyncDone
    /\ acall.pc = "except"
    /\ LET rec == [acall EXCEPT !.last_exc = AsyncRecordFailure(@, acall.exc)]
       IN acall' =
            IF AsyncIsLastAttempt(acall.attempt)
               THEN [rec EXCEPT !.pc = "final"]
               ELSE LET slept == [rec EXCEPT !.waits =
                                     Append(@, [after |-> acall.attempt,
                                                dur |-> GetBackoff(acall.attempt)])]
                    IN IF AsyncInRange(acall.attempt + 1)
                          THEN [slept EXCEPT !.attempt = @ + 1, !.pc = "attempt"]
                          ELSE [slept EXCEPT !.pc = "final"]
    /\ UNCHANGED <<clientVars, serverVars, adapterVars>>

\* http.py:113  raise last_exc
AsyncRaiseFinal ==
    /\ SyncDone
    /\ acall.pc = "final"
    /\ acall' = [acall EXCEPT !.raised = IF acall.last_exc = NoExc THEN TypeError
                                         ELSE acall.last_exc,
                              !.pc = "raised"]
    /\ UNCHANGED <<clientVars, serverVars, adapterVars>>

NextPair ==
    \/ RaiseFileNotFound
    \/ EnterLoop
    \/ \E o \in Outcomes : Attempt(o)
    \/ Except
    \/ RaiseFinal
    \/ AsyncRaiseFileNotFound
    \/ AsyncEnterLoop
    \/ \E o \in Outcomes : AsyncAttempt(o)
    \/ AsyncExcept
    \/ AsyncRaiseFinal

\* predict followed by predict_async
SpecPair == InitPair /\ [][NextPair]_vars

(***************************************************************************)
(*   One client instance used for several predict calls in a row           *)
(***************************************************************************)

\* calls made on one instance
MaxCalls == 2

InitReuse ==
    /\ variant = "sync"
    /\ fileExists \in BOOLEAN
    /\ ctor \in [base_url : BaseUrls, api_key : ApiKeys, retries : {0, MaxRetries}]
    /\ retries = InitRetries(ctor.retries)
    /\ base_url = RStripSlash(ctor.base_url)
    /\ headers = InitHeaders(ctor.api_key)
    /\ history = <<>>
    /\ backoff_factor \in BackoffFactors
    /\ \E rs \in {[given |-> FALSE, set |-> {}], [given |-> TRUE, set |-> {503}]} :
          retry_statuses = InitRetryStatuses(rs)
    /\ cpc = "start"
    /\ attempt = 0
    /\ last_exc = NoExc
    /\ exc = NoExc
    /\ outcomes = <<>>
    /\ waits = <<>>
    /\ result = None
    /\ raised = NoExc
    /\ acall = NewCall("idle")
    \* the server is not exercised
    /\ MODEL = None
    /\ pillow = FALSE
    /\ fs = [q \in {OldPath} |-> <<1>>]
    /\ tampered = {}
    /\ nextUuid = 1
    /\ content_type = [r \in Reqs |-> None]
    /\ filename = [r \in Reqs |-> <<>>]
    /\ payload = [r \in Reqs |-> <<>>]
    /\ spc = [r \in Reqs |-> "idle"]
    /\ path = [r \in Reqs |-> NoPath]
    /\ uploaded = [r \in Reqs |-> 0]
    /\ readPos = [r \in Reqs |-> 0]
    /\ written = [r \in Reqs |-> <<>>]
    /\ fstate = [r \in Reqs |-> "none"]
    /\ streamClosed = [r \in Reqs |-> FALSE]
    /\ pending = [r \in Reqs |-> 0]
    /\ status = [r \in Reqs |-> 0]
    /\ respPath = [r \in Reqs |-> NoPath]
    /\ ioFault = [r \in Reqs |-> FALSE]
    /\ inferRaised = [r \in Reqs |-> FALSE]
    /\ inferErr = [r \in Reqs |-> None]
    /\ detail = [r \in Reqs |-> NoDetail]
    /\ phase = "idle"
    /\ env = [kind |-> "none"]
    /\ mdl = NoModel
    /\ out = [op |-> "none"]

\* http.py:53-61  the caller calls predict again on the same instance: the
\* locals of the new call are fresh, the instance is what the last call left
NextCall ==
    /\ cpc \in {"returned", "raised"}
    /\ Len(history) < MaxCalls - 1
    /\ history' = Append(history, cpc)
    /\ cpc' = "start"
    /\ attempt' = 0
    /\ last_exc' = NoExc
    /\ exc' = NoExc
    /\ outcomes' = <<>>
    /\ waits' = <<>>
    /\ result' = None
    /\ raised' = NoExc
    /\ UNCHANGED <<variant, fileExists, retries, backoff_factor, retry_statuses,
                   ctor, base_url, headers>>
    /\ UNCHANGED <<serverVars, acall, adapterVars>>

NextReuse ==
    \/ RaiseFileNotFound
    \/ EnterLoop
    \/ \E o \in Outcomes : Attempt(o)
    \/ Except
    \/ RaiseFinal
    \/ NextCall

SpecReuse == InitReuse /\ [][NextReuse]_vars

(***************************************************************************)
(*   The life of the model object: lifespan, health, load, infer, and      *)
(*   the in-process bridge                                                 *)
(***************************************************************************)

\* everything of a request handler except the global MODEL
requestVars ==
    <<pillow, fs, tampered, nextUuid, content_type, filename, payload, spc, path, uploaded, readPos, written, fstate, streamClosed, pending, status, respPath, ioFault, inferRaised, inferErr, detail>>

\* the process before lifespan has run: no model
InitAdapter ==
    /\ phase = "before"
    /\ env \in Envs
    /\ mdl = NoModel
    /\ MODEL = None
    /\ out = [op |-> "none"]
    \* neither the client nor a request is exercised
    /\ variant = "sync"
    /\ fileExists = TRUE
    /\ ctor = IdleCtor
    /\ base_url = RStripSlash(ctor.base_url)
    /\ headers = InitHeaders(ctor.api_key)
    /\ history = <<>>
    /\ retries = 1
    /\ backoff_factor = 0
    /\ retry_statuses = {}
    /\ cpc = "idle"
    /\ attempt = 0
    /\ last_exc = NoExc
    /\ exc = NoExc
    /\ outcomes = <<>>
    /\ waits = <<>>
    /\ result = None
    /\ raised = NoExc
    /\ acall = NewCall("idle")
    /\ pillow = FALSE
    /\ fs = [q \in {OldPath} |-> <<1>>]
    /\ tampered = {}
    /\ nextUuid = 1
    /\ content_type = [r \in Reqs |-> None]
    /\ filename = [r \in Reqs |-> <<>>]
    /\ payload = [r \in Reqs |-> <<>>]
    /\ spc = [r \in Reqs |-> "idle"]
    /\ path = [r \in Reqs |-> NoPath]
    /\ uploaded = [r \in Reqs |-> 0]
    /\ readPos = [r \in Reqs |-> 0]
    /\ written = [r \in Reqs |-> <<>>]
    /\ fstate = [r \in Reqs |-> "none"]
    /\ streamClosed = [r \in Reqs |-> FALSE]
    /\ pending = [r \in Reqs |-> 0]
    /\ status = [r \in Reqs |-> 0]
    /\ respPath = [r \in Reqs |-> NoPath]
    /\ ioFault = [r \in Reqs |-> FALSE]
    /\ inferRaised = [r \in Reqs |-> FALSE]
    /\ inferErr = [r \in Reqs |-> None]
    /\ detail = [r \in Reqs |-> NoDetail]

\* main.py:26-44  lifespan up to the yield: MODEL = get_model(env adapter, env weights)
Startup ==
    /\ phase = "before"
    /\ out.op = "none"
    /\ LET a == IF env.envAdapter # None THEN env.envAdapter ELSE "stub"
           m == GetModel(a, env.envWeights, env)
       IN /\ mdl' = m
          /\ MODEL' = m.cls
          /\ out' = [op |-> "load",
                     weights |-> IF Truthy(env.envWeights) THEN NormWeights(env.envWeights)
                                 ELSE env.envWeights]
    /\ phase' = "running"
    /\ UNCHANGED <<clientVars, requestVars, acall, env>>

\* main.py:46-47  lifespan after the yield: MODEL = None
Shutdown ==
    /\ phase = "running"
    /\ out.op = "none"
    /\ phase' = "after"
    /\ MODEL' = None
    /\ mdl' = NoModel
    /\ out' = [op |-> "shutdown"]
    /\ UNCHANGED <<clientVars, requestVars, acall, env>>

\* main.py:52-64  GET /health
Health ==
    /\ phase \in {"before", "running", "after"}
    /\ out.op = "none"
    /\ out' = [op |-> "health", status |-> 200, body |-> HealthBody(MODEL, mdl)]
    /\ UNCHANGED <<clientVars, serverVars, acall, phase, env, mdl>>

\* loader.py:27 / model.py:26  load called again on the loaded model
Load(w) ==
    /\ phase = "running"
    /\ out.op = "none"
    /\ mdl' = ModelLoad(mdl, w, env)
    /\ out' = [op |-> "load", weights |-> w]
    /\ UNCHANGED <<clientVars, serverVars, acall, phase, env>>

\* loader.py:134 / model.py:30  infer on the loaded model
Infer(img, raw) ==
    /\ phase = "running"
    /\ out.op = "none"
    /\ out' = [op |-> "infer", img |-> img, raw |-> raw, obj |-> mdl,
               ret |-> InferOutcome(mdl, img, raw)]
    /\ UNCHANGED <<clientVars, serverVars, acall, phase, env, mdl>>

\* core.py:7-24  predict_inproc, with or without a model of the caller
Inproc(img, supplied, a, w, raw) ==
    /\ phase \in {"before", "running", "after"}
    /\ out.op = "none"
    /\ out' = [op |-> "inproc", img |-> img, raw |-> raw, supplied |-> supplied,
               adapter |-> a, weights |-> w,
               call |-> PredictInproc(img, supplied, a, w, raw, env)]
    /\ UNCHANGED <<clientVars, serverVars, acall, phase, env, mdl>>

\* main.py:64, core.py:24, loader.py:196  the call returns; its caller has the
\* result and the next call can start
Return ==
    /\ phase \in {"before", "running", "after"}
    /\ out.op # "none"
    /\ out' = [op |-> "none"]
    /\ UNCHANGED <<clientVars, serverVars, acall, phase, env, mdl>>

NextAdapter ==
    \/ Startup
    \/ Return
    \/ Shutdown
    \/ Health
    \/ \E w \in LoadWeights : Load(w)
    \/ \E img \in ImagePaths, raw \in RawOutputs : Infer(img, raw)
    \/ \E img \in ImagePaths, supplied \in SuppliedModels, a \in AdapterArgs,
          w \in WeightsArgs, raw \in RawOutputs : Inproc(img, supplied, a, w, raw)

\* the model object through the life of the process
SpecAdapter == InitAdapter /\ [][NextAdapter]_vars

(***************************************************************************)
(*   format_detections on lists of any lengths                             *)
(***************************************************************************)

\* the lists format_detections may be handed
RECURSIVE ListsUpTo(_, _)
ListsUpTo(S, n) ==
    IF n = 0 THEN {<<>>}
    ELSE LET prev == ListsUpTo(S, n - 1)
         IN prev \cup {Append(l, x) : l \in {t \in prev : Len(t) = n - 1}, x \in S}

BoxLists == ListsUpTo({Box1, Box2}, MaxDet)
ScoreLists == ListsUpTo({4, 9}, MaxDet)
ClassLists == ListsUpTo({0, 1, 2, 3, 5}, MaxDet)
NamesArgs == {Absent, Opt(NoNames), Opt(CocoNames)}

InitFormat ==
    /\ phase = "format"
    /\ \E b \in BoxLists, sc \in ScoreLists, c \in ClassLists, nm \in NamesArgs :
          env = [kind |-> "format", boxes |-> b, scores |-> sc, classes |-> c, names |-> nm]
    /\ mdl = NoModel
    /\ MODEL = None
    /\ out = [op |-> "none"]
    /\ variant = "sync"
    /\ fileExists = TRUE
    /\ ctor = IdleCtor
    /\ base_url = RStripSlash(ctor.base_url)
    /\ headers = InitHeaders(ctor.api_key)
    /\ history = <<>>
    /\ retries = 1
    /\ backoff_factor = 0
    /\ retry_statuses = {}
    /\ cpc = "idle"
    /\ attempt = 0
    /\ last_exc = NoExc
    /\ exc = NoExc
    /\ outcomes = <<>>
    /\ waits = <<>>
    /\ result = None
    /\ raised = NoExc
    /\ acall = NewCall("idle")
    /\ pillow = FALSE
    /\ fs = [q \in {OldPath} |-> <<1>>]
    /\ tampered = {}
    /\ nextUuid = 1
    /\ content_type = [r \in Reqs |-> None]
    /\ filename = [r \in Reqs |-> <<>>]
    /\ payload = [r \in Reqs |-> <<>>]
    /\ spc = [r \in Reqs |-> "idle"]
    /\ path = [r \in Reqs |-> NoPath]
    /\ uploaded = [r \in Reqs |-> 0]
    /\ readPos = [r \in Reqs |-> 0]
    /\ written = [r \in Reqs |-> <<>>]
    /\ fstate = [r \in Reqs |-> "none"]
    /\ streamClosed = [r \in Reqs |-> FALSE]
    /\ pending = [r \in Reqs |-> 0]
    /\ status = [r \in Reqs |-> 0]
    /\ respPath = [r \in Reqs |-> NoPath]
    /\ ioFault = [r \in Reqs |-> FALSE]
    /\ inferRaised = [r \in Reqs |-> FALSE]
    /\ inferErr = [r \in Reqs |-> None]
    /\ detail = [r \in Reqs |-> NoDetail]

\* postprocess.py:3-23  one call of format_detections
Format ==
    /\ phase = "format"
    /\ out.op = "none"
    /\ out' = [op |-> "format",
               dets |-> FormatDetections(env.boxes, env.scores, env.classes, env.names)]
    /\ UNCHANGED <<clientVars, serverVars, acall, phase, env, mdl>>

NextFormat ==
    \/ Format

SpecFormat == InitFormat /\ [][NextFormat]_vars
(***************************************************************************)
(*                       Properties of the client                          *)
(***************************************************************************)

\* the spec's classification: a network error or a status of the retryable set
Retryable(o) == o.net \/ o.status \in retry_statuses

\* a 4xx / 5xx response whose status is not in the retryable set
FatalStatus(o) == ~o.net /\ o.status >= 400 /\ o.status \notin retry_statuses

\* the failure a failed attempt stands for
FailureOf(o) == IF o.net THEN RequestError ELSE HTTPStatusError(o.status)

\* C1: an attempt below max_attempts that gets a 4xx/5xx status outside
\* retry_statuses is the last attempt of the call and is followed by no wait.
C1_FatalStatusRaisesAtOnce ==
    \A i \in 1..Len(outcomes) :
        (i < retries /\ FatalStatus(outcomes[i])) =>
            /\ Len(outcomes) = i
            /\ \A j \in 1..Len(waits) : waits[j].after # i

\* C2: when every attempt ends in a retryable failure the call never makes
\* more than max_attempts attempts, stops attempting once max_attempts are
\* made, and has made exactly max_attempts when it raises.
C2_ExactlyMaxAttempts ==
    (\A i \in 1..Len(outcomes) : Retryable(outcomes[i])) =>
        /\ Len(outcomes) <= retries
        /\ (Len(outcomes) = retries => cpc \in {"except", "final", "raised"})
        /\ (cpc = "raised" /\ fileExists =>
                /\ Len(outcomes) = retries
                /\ raised.kind \in {"RequestError", "HTTPStatusError"})

C2_Witness ==
    /\ cpc = "raised"
    /\ retries = MaxRetries
    /\ Len(outcomes) = retries
    /\ \A i \in 1..Len(outcomes) : Retryable(outcomes[i])
    /\ \E i, j \in 1..Len(outcomes) : outcomes[i].net /\ ~outcomes[j].net

\* C3: k < max_attempts retryable failures followed by a 2xx response make
\* the call return that response's body after k+1 attempts and k waits; and
\* while fewer than max_attempts attempts have all failed retryably the call
\* has not given up.
C3_RetryThenSuccess ==
    LET n == Len(outcomes)
    IN /\ (/\ n >= 1
           /\ ~outcomes[n].net
           /\ IsSuccess(outcomes[n].status)
           /\ outcomes[n].status \notin retry_statuses
           /\ \A i \in 1..(n - 1) : Retryable(outcomes[i]))
          => /\ cpc = "returned"
             /\ result = outcomes[n].body
             /\ raised = NoExc
             /\ n <= retries
             /\ Len(waits) = n - 1
       /\ (/\ fileExists
           /\ cpc # "start"
           /\ n < retries
           /\ \A i \in 1..n : Retryable(outcomes[i]))
          => cpc \in {"attempt", "except"}

C3_Witness ==
    /\ cpc = "returned"
    /\ Len(outcomes) = 3
    /\ Len(waits) = 2
    /\ outcomes[1].net
    /\ outcomes[2] = Response(503, None)
    /\ 503 \in retry_statuses
    /\ result = "body2"

\* C4: the j-th wait follows failed attempt j, lasts backoff_base * 2^(j-1),
\* follows a retryable failure, and never follows the last attempt.
C4_BackoffBetweenRetryableFailures ==
    \A j \in 1..Len(waits) :
        /\ waits[j].after = j
        /\ waits[j].dur = backoff_factor * Pow2(j - 1)
        /\ j < retries
        /\ j <= Len(outcomes)
        /\ Retryable(outcomes[j])

\* C5: the error raised after the attempts is the failure of the last
\* attempt: same kind, same status code.
C5_RaisesLastFailure ==
    (cpc = "raised" /\ Len(outcomes) >= 1) =>
        raised = FailureOf(outcomes[Len(outcomes)])

C5_Witness ==
    /\ cpc = "raised"
    /\ Len(outcomes) = 3
    /\ Len(outcomes) = retries
    /\ outcomes[1].net
    /\ outcomes[2] = Response(503, None)
    /\ outcomes[3] = Response(500, None)
    /\ \A i \in 1..3 : Retryable(outcomes[i])
    /\ raised = HTTPStatusError(500)
(***************************************************************************)
(*                   Properties of the /predict handler                    *)
(***************************************************************************)

\* the content types the handler is specified to accept, whatever their case
AcceptedType(ct) == ct \in {"image/jpeg", "IMAGE/PNG", "image/webp"}

\* request r ran to its response
Done(r) == spc[r] = "done"

\* where the chunk that ends at stream position pos starts
ChunkStart(pos) == ((pos - 1) \div CHUNK_SIZE) * CHUNK_SIZE

\* C6: an upload longer than MAX_UPLOAD_SIZE is answered 413, the stream is
\* read up to the chunk that crosses the ceiling and no further, only the
\* chunks before it were written, and the request's file does not exist
\* (also when somebody else had already removed it).
C6_TooLargeRejectedAndCleaned ==
    \A r \in Reqs :
        (/\ Done(r)
         /\ AcceptedType(content_type[r])
         /\ Len(payload[r]) > MAX_UPLOAD_SIZE
         /\ ~ioFault[r])
        => /\ status[r] = 413
           /\ path[r] \notin DOMAIN fs
           /\ readPos[r] > MAX_UPLOAD_SIZE
           /\ ChunkStart(readPos[r]) <= MAX_UPLOAD_SIZE
           /\ written[r] = SubSeq(payload[r], 1, ChunkStart(readPos[r]))
           /\ respPath[r] = NoPath

C6_Witness ==
    \E r \in Reqs :
        /\ Done(r)
        /\ status[r] = 413
        /\ readPos[r] < Len(payload[r])
        /\ Len(written[r]) >= CHUNK_SIZE
        /\ path[r] \in tampered
        /\ path[r] \notin DOMAIN fs

\* C7 as stated: a payload below the ceiling with an allowed content type
\* and a decodable image is always answered 200 with the path of a file
\* that holds exactly the uploaded bytes.
C7_SmallValidUploadIs200 ==
    \A r \in Reqs :
        (/\ Done(r)
         /\ AcceptedType(content_type[r])
         /\ Len(payload[r]) < MAX_UPLOAD_SIZE
         /\ IsImage(payload[r])
         /\ ~ioFault[r]
         /\ path[r] \notin tampered)
        => /\ status[r] = 200
           /\ respPath[r] \in DOMAIN fs
           /\ fs[respPath[r]] = payload[r]

\* C7 amended: such a payload is saved with exactly the uploaded bytes; the
\* answer is 200 with the path of that file unless MODEL.infer raises, and
\* 500 when it raises.
C7_SmallValidUploadSaved ==
    \A r \in Reqs :
        (/\ Done(r)
         /\ AcceptedType(content_type[r])
         /\ Len(payload[r]) < MAX_UPLOAD_SIZE
         /\ IsImage(payload[r])
         /\ ~ioFault[r]
         /\ path[r] \notin tampered)
        => /\ path[r] \in DOMAIN fs
           /\ fs[path[r]] = payload[r]
           /\ written[r] = payload[r]
           /\ IF inferRaised[r]
                 THEN status[r] = 500
                 ELSE status[r] = 200 /\ respPath[r] = path[r]

C7_Witness ==
    \E r \in Reqs :
        /\ Done(r)
        /\ status[r] = 200
        /\ pillow
        /\ MODEL # None
        /\ Len(payload[r]) = MAX_UPLOAD_SIZE - 1
        /\ Len(payload[r]) > CHUNK_SIZE
        /\ \E i, j \in 1..Len(payload[r]) : payload[r][i] # payload[r][j]
        /\ respPath[r] \in DOMAIN fs
        /\ fs[respPath[r]] = payload[r]

\* C8: the handler's step on a request whose content type is not allowed
\* ends the request with 400, reads nothing of the stream and leaves the
\* files of the upload directory as they were.
C8_BadContentTypeTouchesNothing ==
    [][\A r \in Reqs :
          (spc[r] = "start" /\ spc'[r] # "start" /\ ~AcceptedType(content_type[r]))
          => /\ spc'[r] = "done"
             /\ status'[r] = 400
             /\ fs' = fs
             /\ readPos'[r] = 0
             /\ written'[r] = <<>>
             /\ path'[r] = NoPath]_vars

C8_Witness ==
    \E r \in Reqs :
        /\ Done(r)
        /\ status[r] = 400
        /\ content_type[r] = "text/plain"
        /\ Len(payload[r]) > 0
        /\ path[r] = NoPath
        /\ DOMAIN fs = {OldPath}

\* C9: whenever the handler has exited, the uploaded stream is closed.
C9_StreamClosedOnEveryExit ==
    \A r \in Reqs : Done(r) => streamClosed[r]

\* C10: a fully written within-limit upload that does not decode is answered
\* 400 and its file is gone when a decoder is available; without a decoder
\* the check is skipped: no 400, and the file is kept with the upload's bytes.
C10_InvalidImageRejectedAndCleaned ==
    \A r \in Reqs :
        (/\ Done(r)
         /\ AcceptedType(content_type[r])
         /\ Len(payload[r]) <= MAX_UPLOAD_SIZE
         /\ ~ioFault[r])
        => /\ (pillow /\ ~IsImage(payload[r]))
                => (status[r] = 400 /\ path[r] \notin DOMAIN fs /\ respPath[r] = NoPath)
           /\ ~pillow
                => /\ status[r] # 400
                   /\ path[r] \notin tampered
                        => (path[r] \in DOMAIN fs /\ fs[path[r]] = payload[r])

C10_Witness ==
    \E r \in Reqs :
        /\ Done(r)
        /\ pillow
        /\ status[r] = 400
        /\ AcceptedType(content_type[r])
        /\ written[r] = payload[r]
        /\ Len(payload[r]) > CHUNK_SIZE
        /\ ~IsImage(payload[r])
        /\ path[r] \notin tampered
        /\ path[r] \notin DOMAIN fs
\* C11: a failure raised by MODEL.infer (the real adapter lets a failing
\* detector call through) is answered 500 with the failure's message as
\* detail, and the request's saved file is still there with what was written.
C11_InferenceFailureIs500 ==
    \A r \in Reqs :
        (Done(r) /\ inferRaised[r])
        => /\ status[r] = 500
           /\ inferErr[r] \in InferErrors
           /\ detail[r] = [msg |-> inferErr[r], arg |-> ""]
           /\ respPath[r] = NoPath
           /\ path[r] \notin tampered
                => (path[r] \in DOMAIN fs /\ fs[path[r]] = written[r])

C11_Witness ==
    \E r \in Reqs :
        /\ Done(r)
        /\ inferRaised[r]
        /\ MODEL = "YolovXAdapter"
        /\ status[r] = 500
        /\ detail[r].msg = "out of memory"
        /\ Len(written[r]) > CHUNK_SIZE
        /\ path[r] \in DOMAIN fs
        /\ fs[path[r]] = payload[r]
\* a load of the real adapter has just run with weights path out.weights
LoadedYolo == out.op = "load" /\ mdl.cls = "YolovXAdapter"

\* C12 (as stated): load sets the mode by outcome: inference when the detector
\* is initialised from an existing weights file, no-weights when there is no
\* weights path or the file is missing, dry-run whenever the detector could
\* not be initialised.
C12_ModeByOutcome ==
    LoadedYolo
    => LET failed == ~env.importOK \/ ~env.ctorOK
           there == Truthy(out.weights) /\ WeightsExist(out.weights)
       IN /\ failed => mdl.mode = "dry-run"
          /\ (~failed /\ there) => mdl.mode = "inference"
          /\ (~failed /\ ~there) => mdl.mode = "no-weights"

\* C12 (amended): load gives dry-run only when the detector library cannot be
\* imported; with the library there, inference when the detector is built from
\* an existing weights file, and no-weights in every other case, a detector
\* constructor that fails included.
C12_ModeByImportAndWeights ==
    LoadedYolo
    => LET there == Truthy(out.weights) /\ WeightsExist(out.weights)
       IN /\ ~env.importOK => (mdl.mode = "dry-run" /\ ~mdl.detector)
          /\ (env.importOK /\ there /\ env.ctorOK)
                => (mdl.mode = "inference" /\ mdl.detector)
          /\ (env.importOK /\ ~(there /\ env.ctorOK)) => mdl.mode = "no-weights"
          /\ mdl.detector <=> (env.importOK /\ env.ctorOK)
C12_Witness ==
    /\ LoadedYolo
    /\ env.importOK /\ ~env.ctorOK
    /\ out.weights = "/root/good.pt"
    /\ mdl.mode = "no-weights"

\* the outcome of the last infer call, made directly or through predict_inproc
InferCalled == out.op \in {"infer", "inproc"}
LastObj == IF out.op = "infer" THEN out.obj ELSE out.call.used
LastRet == IF out.op = "infer" THEN out.ret ELSE out.call.ret

ResultFields == {"image", "width", "height", "detections", "model"}

\* C13: every result infer returns, from the stub and from the real adapter on
\* every path, has the fields image, width, height, detections and model, and
\* its detections is a sequence.
C13_StableSchema ==
    (InferCalled /\ ~LastRet.raised)
    => /\ DOMAIN LastRet.result = ResultFields
       /\ DOMAIN LastRet.result.model = {"adapter", "mode", "version"}
       /\ DOMAIN LastRet.result.detections = 1..Len(LastRet.result.detections)
C13_Witness ==
    /\ out.op = "infer"
    /\ out.obj.cls = "YolovXAdapter" /\ out.obj.detector
    /\ out.raw.kind = "result" /\ ~out.raw.boxes
    /\ ~out.ret.raised
    /\ out.ret.result.detections = <<>>
    /\ out.ret.result.width = 6

\* C15: infer of the stub returns no detections and mode dry-run for every
\* image path, loaded or not, whatever weights load was given.
C15_StubAlwaysDryRun ==
    (InferCalled /\ LastObj.cls = "StubModel")
    => /\ ~LastRet.raised
       /\ LastRet.result.detections = <<>>
       /\ LastRet.result.model.mode = "dry-run"
C15_Witness ==
    /\ out.op = "infer"
    /\ out.obj.cls = "StubModel"
    /\ env.envWeights = "good.pt"
    /\ out.img = <<"d", "/", "/", "a">>
    /\ out.ret.result.detections = <<>>
    /\ out.ret.result.model.mode = "dry-run"

\* C16: predict_inproc with a model supplied uses that model and builds none;
\* supplied or not, it calls infer once and returns that call's result.
C16_InprocDelegates ==
    out.op = "inproc"
    => /\ out.call.inferCalls = 1
       /\ out.call.ret = InferOutcome(out.call.used, out.img, out.raw)
       /\ out.supplied # NoModel
             => (out.call.used = out.supplied /\ out.call.constructed = 0)
       /\ out.supplied = NoModel => out.call.constructed = 1
C16_Witness ==
    /\ out.op = "inproc"
    /\ out.supplied = StubInit
    /\ out.adapter = "YOLOv8"
    /\ out.weights = "good.pt"
    /\ env.importOK /\ env.ctorOK
    /\ out.call.used = StubInit
    /\ out.call.constructed = 0

\* C17 (as stated): in every server state /health answers 200 with status ok;
\* its model is the loaded model's adapter, mode and version, and null when
\* no model is loaded.
C17_HealthModelOrNull ==
    out.op = "health"
    => /\ out.status = 200
       /\ out.body.status = "ok"
       /\ out.body.model.null <=> (MODEL = None)
       /\ MODEL # None
             => out.body.model = [null |-> FALSE, adapter |-> mdl.cls,
                                  mode |-> mdl.mode, version |-> mdl.version]

\* C17 (amended): in every server state /health answers 200 with status ok and
\* a model object, never null: the loaded model's adapter, mode and version,
\* and all three null when no model is loaded.
C17_HealthModelObject ==
    out.op = "health"
    => /\ out.status = 200
       /\ out.body.status = "ok"
       /\ ~out.body.model.null
       /\ MODEL # None
             => out.body.model = [null |-> FALSE, adapter |-> mdl.cls,
                                  mode |-> mdl.mode, version |-> mdl.version]
       /\ MODEL = None
             => out.body.model = [null |-> FALSE, adapter |-> None,
                                  mode |-> None, version |-> None]
C17_Witness ==
    /\ out.op = "health"
    /\ phase = "after"
    /\ MODEL = None
    /\ out.body.model.adapter = None
    /\ ~out.body.model.null

\* the lists the last format_detections call was given
FormatCalled == out.op = "format"

\* C14: format_detections returns as many detections as the shortest of its
\* three lists, detection i built from boxes[i], scores[i], classes[i], with
\* the label from the name table when the class is in it and the class
\* number as a string otherwise.
C14_ShortestListInOrder ==
    FormatCalled
    => LET n == Min3(Len(env.boxes), Len(env.scores), Len(env.classes))
           table == IF env.names.has THEN env.names.v ELSE NoNames
       IN /\ Len(out.dets) = n
          /\ \A i \in 1..n :
                /\ out.dets[i].box = env.boxes[i]
                /\ out.dets[i].score = env.scores[i]
                /\ out.dets[i].class_id = env.classes[i] \div 2
                /\ out.dets[i].label =
                      IF out.dets[i].class_id \in DOMAIN table
                         THEN table[out.dets[i].class_id]
                         ELSE IntToStr(out.dets[i].class_id)
C14_Witness ==
    /\ FormatCalled
    /\ Len(env.boxes) = 2 /\ Len(env.scores) = 1 /\ Len(env.classes) = 2
    /\ env.classes[1] = 3
    /\ env.names = Opt(CocoNames)
    /\ Len(out.dets) = 1
    /\ out.dets[1].label = "dog"

\* the async call is over
AsyncDone == acall.pc \in {"returned", "raised"}

\* C18: when the image path does not exist predict and predict_async raise a
\* file-not-found error without a single upload attempt or backoff wait.
C18_MissingFileNoAttempt ==
    ~fileExists
    => /\ outcomes = <<>> /\ waits = <<>>
       /\ acall.outcomes = <<>> /\ acall.waits = <<>>
       /\ cpc \in {"start", "raised"}
       /\ acall.pc \in {"start", "raised"}
       /\ cpc = "raised" => raised = FileNotFoundError
       /\ acall.pc = "raised" => acall.raised = FileNotFoundError
C18_Witness ==
    /\ ~fileExists
    /\ cpc = "raised" /\ raised = FileNotFoundError
    /\ acall.pc = "raised" /\ acall.raised = FileNotFoundError
    /\ acall.outcomes = <<>> /\ acall.waits = <<>>
    /\ retries = MaxRetries

AloneStatus(r) ==
    IF NormContentType(content_type[r]) \notin ALLOWED_CONTENT_TYPES THEN 400
    ELSE IF Len(payload[r]) > MAX_UPLOAD_SIZE THEN 413
    ELSE IF pillow /\ ~IsImage(payload[r]) THEN 400
    ELSE IF inferRaised[r] THEN 500
    ELSE 200

\* C20: with two requests interleaved at their awaits, each request ends with
\* the status it would get alone; its file is absent after a rejection and
\* holds exactly its own bytes otherwise; the two files are distinct, and a
\* file being written holds what its own request wrote so far.
C20_ConcurrentRequestsIsolated ==
    /\ \A r \in Reqs :
          /\ (spc[r] = "read" /\ fstate[r] = "open")
                => (path[r] \in DOMAIN fs /\ fs[path[r]] = written[r])
          /\ Done(r)
                => /\ status[r] = AloneStatus(r)
                   /\ status[r] \in {400, 413}
                         => (path[r] = NoPath \/ path[r] \notin DOMAIN fs)
                   /\ status[r] \in {200, 500}
                         => (path[r] \in DOMAIN fs /\ fs[path[r]] = payload[r])
    /\ (path[1] # NoPath /\ path[2] # NoPath) => path[1] # path[2]
    /\ OldPath \in DOMAIN fs /\ fs[OldPath] = <<1>>
C20_Witness ==
    /\ Done(1) /\ Done(2)
    /\ SecureFilename(filename[1]) = SecureFilename(filename[2])
    /\ status[1] = 413 /\ path[1] \notin DOMAIN fs
    /\ status[2] = 200 /\ fs[path[2]] = payload[2]
    /\ Len(payload[2]) > CHUNK_SIZE
    /\ path[1][1] < path[2][1]

\* C25: a request's file never holds more than MAX_UPLOAD_SIZE bytes: the
\* chunk that takes the count over the ceiling is not written, and a payload
\* of exactly MAX_UPLOAD_SIZE bytes is written in full and not refused as
\* too large.
C25_WrittenWithinCeiling ==
    \A r \in Reqs :
        /\ Len(written[r]) <= MAX_UPLOAD_SIZE
        /\ path[r] \in DOMAIN fs => Len(fs[path[r]]) <= MAX_UPLOAD_SIZE
        /\ Len(written[r]) <= uploaded[r]
        /\ uploaded[r] > MAX_UPLOAD_SIZE
              => (spc[r] \in {"closing", "done"} /\ Len(written[r]) < uploaded[r])
        /\ (/\ Len(payload[r]) = MAX_UPLOAD_SIZE
            /\ NormContentType(content_type[r]) \in ALLOWED_CONTENT_TYPES
            /\ ~ioFault[r])
              => /\ pending[r] # 413 /\ status[r] # 413
                 /\ spc[r] \in {"closing", "infer", "done"} => written[r] = payload[r]
C25_Witness ==
    \E r \in Reqs :
        /\ Done(r)
        /\ Len(payload[r]) = MAX_UPLOAD_SIZE
        /\ written[r] = payload[r]
        /\ path[r] \in DOMAIN fs /\ fs[path[r]] = payload[r]
        /\ status[r] = 200

\* a step of the handler of request q, or the end of its inference call
HandlerStep(q) ==
    \/ RejectContentType(q)
    \/ OpenUpload(q, FALSE)
    \/ ReadChunk(q, "none")
    \/ FinishUpload(q)
    \/ CloseStream(q)
    \/ InferDone(q, None)

\* C21: while a request waits for its inference call, every other request
\* that is not finished can take its next step; and a waiting handler leaves
\* the wait only with the answer of its own inference call, 200 when it
\* returned and 500 when it raised.
C21_InferenceDoesNotBlockOthers ==
    /\ [](\A r \in Reqs, q \in Reqs :
             (spc[r] = "infer" /\ q # r /\ spc[q] \notin {"idle", "done"})
             => ENABLED HandlerStep(q))
    /\ [][\A r \in Reqs :
             (spc[r] = "infer" /\ spc'[r] # "infer")
             => /\ spc'[r] = "done"
                /\ status'[r] = IF inferRaised'[r] THEN 500 ELSE 200
                /\ \A q \in Reqs \ {r} : spc'[q] = spc[q] /\ status'[q] = status[q]]_vars
C21_Witness ==
    /\ spc[1] = "infer"
    /\ Done(2)
    /\ status[2] = 200
    /\ path[1][1] < path[2][1]
    /\ Len(payload[2]) > CHUNK_SIZE
    /\ fs[path[2]] = payload[2]

\* name is what follows the last separator of s, trailing separators and
\* "." components aside
IsLastComponentOf(name, s) ==
    \E k \in 0..Len(s) :
        /\ k + Len(name) <= Len(s)
        /\ SubSeq(s, k + 1, k + Len(name)) = name
        /\ k = 0 \/ s[k] = "/"
        /\ \A j \in (k + Len(name) + 1)..Len(s) : s[j] \in {"/", "."}

\* C23: whatever file name the client sends, the file the handler writes is a
\* direct child of the upload directory: a fresh token, then the last
\* component of the sent name (of "upload" for an empty name), no separator
\* in it; nothing else in the file system is created or changed.
C23_UploadStaysInUploadDir ==
    /\ \A r \in Reqs :
          path[r] # NoPath
          => /\ Len(path[r]) = 2
             /\ path[r][1] >= 1 /\ path[r][1] < nextUuid
             /\ \A j \in 1..Len(path[r][2]) : path[r][2][j] # "/"
             /\ IsLastComponentOf(path[r][2],
                                  IF filename[r] = <<>> THEN DefaultName ELSE filename[r])
             /\ \A q \in Reqs \ {r} : path[q] # NoPath => path[q][1] # path[r][1]
    /\ DOMAIN fs \subseteq {OldPath} \cup {path[r] : r \in Reqs}
    /\ OldPath \in DOMAIN fs /\ fs[OldPath] = <<1>>
C23_Witness ==
    /\ Done(1) /\ Done(2)
    /\ filename[1] = <<"..", "/", "..", "/", "x">>
    /\ filename[2] = <<"/", "e", "/", "p">>
    /\ path[1][2] = <<"x">> /\ path[2][2] = <<"p">>
    /\ path[1] \in DOMAIN fs /\ path[2] \in DOMAIN fs
    /\ fs[path[1]] = payload[1]

\* the statuses the default policy is specified to retry
SpecifiedRetryable(st) == st = 429 \/ (st >= 500 /\ st <= 599)

\* the client was built without retry_statuses
DefaultPolicy == retry_statuses = InitRetryStatuses([given |-> FALSE, set |-> {}])

\* C22: under the default retry policy a response with status 429 or any 5xx
\* status is classified as a retryable failure: its status is in the
\* retryable set and the failure is recorded where that set is tested.
C22_DefaultRetriesEvery5xx ==
    LET n == Len(outcomes)
    IN (/\ DefaultPolicy
        /\ n >= 1
        /\ ~outcomes[n].net
        /\ SpecifiedRetryable(outcomes[n].status))
       => /\ outcomes[n].status \in retry_statuses
          /\ cpc = "except" => last_exc = HTTPStatusError(outcomes[n].status)

\* C26: whatever the retries argument, 0 and negative values included, a call
\* on an existing file makes at least one attempt before it ends, and the
\* final raise always has a failure recorded from an attempt that was made.
C26_AtLeastOneAttempt ==
    (fileExists /\ cpc \in {"final", "returned", "raised"})
       => /\ Len(outcomes) >= 1
          /\ cpc = "final"
                => \E k \in 1..Len(outcomes) : last_exc = FailureOf(outcomes[k])
          /\ cpc = "raised"
                => /\ raised # TypeError
                   /\ \E k \in 1..Len(outcomes) : raised = FailureOf(outcomes[k])
C26_Witness ==
    /\ ctor.retries <= 0
    /\ fileExists
    /\ cpc = "raised"
    /\ Len(outcomes) = 1
    /\ outcomes[1].net
    /\ raised = RequestError

\* C24: no step of a predict call changes base_url, retries, backoff_factor,
\* retry_statuses or the headers of the instance; so a call made after
\* earlier calls, returned or raised, starts at attempt 1, has the whole
\* attempt budget of the instance as constructed, and waits backoff_base first.
C24_CallLeavesInstanceUnchanged ==
    /\ [][UNCHANGED <<base_url, retries, backoff_factor, retry_statuses, headers>>]_vars
    /\ [](history # <<>>
          => /\ retries = InitRetries(ctor.retries)
             /\ base_url = RStripSlash(ctor.base_url)
             /\ headers = InitHeaders(ctor.api_key)
             /\ (cpc = "attempt" /\ outcomes = <<>>) => attempt = 1
             /\ Len(outcomes) <= InitRetries(ctor.retries)
             /\ (/\ fileExists /\ cpc = "raised"
                 /\ \A k \in 1..Len(outcomes) : Retryable(outcomes[k]))
                => Len(outcomes) = InitRetries(ctor.retries)
             /\ Len(waits) >= 1 => waits[1] = [after |-> 1, dur |-> backoff_factor])
C24_Witness ==
    /\ history # <<>>
    /\ history[1] = "raised"
    /\ cpc = "returned"
    /\ ctor.retries = MaxRetries
    /\ Len(outcomes) = MaxRetries
    /\ waits[1] = [after |-> 1, dur |-> 3]
    /\ "Authorization" \in DOMAIN headers
    /\ ctor.base_url = "http://h/" /\ base_url = "http://h"

====
